---- MODULE Spec2Model ----
(***************************************************************************)
(* Token cache of wechat-minapp's Client (src/src/client.rs): the cached   *)
(* AccessToken behind a tokio RwLock, the `refreshing` AtomicBool and the  *)
(* tokio Notify, as used by Client::access_token and                       *)
(* Client::stable_access_token.  Callers are concurrent tasks on a         *)
(* multi-threaded runtime; every await point and every atomic operation of *)
(* the two methods is one step.  Time is counted in minutes.               *)
(***************************************************************************)
EXTENDS Integers, FiniteSets, Sequences, TLC

\* ---------------------------------------------------------------- bounds
NumCallers == 2      \* concurrent tasks sharing one Client
MaxCalls == 3        \* calls started in one behaviour
MaxExcess == 1       \* bytes / characters tried beyond a length limit
MaxDetails == 2      \* entries of MsgSecCheckResult.detail
MaxTime == 2         \* minutes the clock may advance
ShortTTL == 3        \* an expires_in inside the safety margin
LongTTL == 6         \* an expires_in beyond the safety margin

\* ------------------------------------------------------ program constants
Margin == 5          \* Duration::minutes(5) in is_token_expired
EmptyToken == 0      \* "".to_string(), the token Client::new stores
PathLimit == 1024    \* v.len() > 1024 in QrCodeArgBuilder::build
ContentLimit == 2500 \* content.len() > 2500 in ArgsBuilder::build
DefaultVersion == 2  \* self.version.unwrap_or(2)

Callers == 1..NumCallers
None == 0            \* no caller (Option::None for a lock holder)
TTLs == {ShortTTL, LongTTL}
\* The force_refresh argument of a call.  access_token() and
\* stable_access_token() run the same steps on the same fields of the Client
\* and differ only in the request the fetch sends, and Some(false) takes the
\* same path as None: "None" stands for access_token(),
\* stable_access_token(None) and stable_access_token(Some(false)),
\* "Some(true)" for stable_access_token(Some(true)).
ForceArgs == {"None", "Some(true)"}

VARIABLES
    access_token,    \* the AccessToken inside Client.access_token (RwLock)
    writer,          \* holder of the RwLock's write guard, or None
    refreshing,      \* Client.refreshing (AtomicBool)
    notify,          \* Client.notify: tasks whose Notified future is pending
    now,             \* Utc::now(), in minutes
    pc,              \* position of each caller inside its call
    force,           \* the force_refresh argument of the call
    builder,         \* the AccessTokenBuilder a fetch returned to the caller
    result,          \* what the call returned
    path,            \* history: how the call went (fast / winner / loser)
    fetched,         \* history: the fetch of the call: "no", "pending", "err",
                     \*   "ok" (expires_in beyond the margin) or "ok_short"
    fetch_calls,     \* history: number of fetches invoked so far
    calls,           \* history: number of calls started so far
    group_base,      \* history: fetch_calls when the busy period began
    group_token,     \* history: the cached token when the busy period began
    group_mixed,     \* history: a call joined after a member had returned
    arg,             \* the receiver / argument of a builder or conversion
    ret              \* what the builder's build() or the conversion returned

\* the variables of the token cache
client == <<access_token, writer, refreshing, notify, now, pc, force,
            builder, result, path, fetched, fetch_calls, calls,
            group_base, group_token, group_mixed>>

\* the variables of the builders and conversions, untouched by the cache
pure == <<arg, ret>>

vars == <<client, pure>>

shared == <<access_token, writer, refreshing, notify>>
history == <<fetch_calls, calls, group_base, group_token, group_mixed>>

\* ----------------------------------------------------------- data values
AccessToken(tok, exp) == [access_token |-> tok, expired_at |-> exp]

Ok(tok) == [ok |-> TRUE, val |-> tok]
Err == [ok |-> FALSE, val |-> -1]
NoResult == [ok |-> FALSE, val |-> -2]
NoBuilder == AccessToken(EmptyToken, 0)
NoArg == "none"      \* no builder or argument under study
NoRet == [ok |-> FALSE, val |-> "none"]    \* nothing returned (yet)

\* the margin itself counted as stale (<= in place of <)
is_token_expired_le(token, t) == token.expired_at - t <= Margin

\* is_token_expired with the operands of the subtraction swapped
is_token_expired_swapped(token, t) == t - token.expired_at < Margin

\* token.expired_at.signed_duration_since(now) < Duration::minutes(5)
is_token_expired(token, t) == token.expired_at - t < Margin

\* a plain store in place of the compare-exchange: it always succeeds
compare_exchange_store(current, expected) == TRUE

\* AtomicBool::compare_exchange(false, true, ..).is_ok()
compare_exchange(current, expected) == current = expected

\* expires_in taken as the expiry itself, Utc::now() not added
deserialize_expired_at_ttl(t, ttl) == ttl

\* AccessTokenBuilder::deserialize_expired_at: Utc::now() + seconds
deserialize_expired_at(t, ttl) == t + ttl

Active(c) == pc[c] \notin {"idle", "done"}

\* a client constructed with an expiry in the future
Init_fresh ==
    /\ access_token = AccessToken(EmptyToken, LongTTL)
    /\ writer = None
    /\ refreshing = FALSE
    /\ notify = {}
    /\ now = 0
    /\ pc = [c \in Callers |-> "idle"]
    /\ force = [c \in Callers |-> "None"]
    /\ builder = [c \in Callers |-> NoBuilder]
    /\ result = [c \in Callers |-> NoResult]
    /\ path = [c \in Callers |-> "none"]
    /\ fetched = [c \in Callers |-> "no"]
    /\ fetch_calls = 0
    /\ calls = 0
    /\ group_base = 0
    /\ group_token = AccessToken(EmptyToken, LongTTL)
    /\ group_mixed = FALSE
    /\ arg = NoArg
    /\ ret = NoRet

\* ------------------------------------------------------------------ Init
\* Client::new / Client::with_non_stable
NewClient ==
    /\ access_token = AccessToken(EmptyToken, 0)
    /\ writer = None
    /\ refreshing = FALSE
    /\ notify = {}
    /\ now = 0
    /\ pc = [c \in Callers |-> "idle"]
    /\ force = [c \in Callers |-> "None"]
    /\ builder = [c \in Callers |-> NoBuilder]
    /\ result = [c \in Callers |-> NoResult]
    /\ path = [c \in Callers |-> "none"]
    /\ fetched = [c \in Callers |-> "no"]
    /\ fetch_calls = 0
    /\ calls = 0
    /\ group_base = 0
    /\ group_token = AccessToken(EmptyToken, 0)
    /\ group_mixed = FALSE

\* the Client alone: no builder or conversion is under study
Init ==
    /\ NewClient
    /\ arg = NoArg
    /\ ret = NoRet

\* --------------------------------------------------------------- actions
\* A task calls access_token() or stable_access_token(force_refresh).
\* A busy period is a maximal stretch with some call in progress; its calls
\* are the group.  The call that opens a new busy period clears what the
\* calls of the previous one returned.
CallEnter(c, f) ==
    /\ pc[c] \in {"idle", "done"}
    /\ calls < MaxCalls
    /\ calls' = calls + 1
    /\ force' = [force EXCEPT ![c] = f]
    /\ IF \A d \in Callers : ~Active(d)
       THEN /\ pc' = [d \in Callers |-> IF d = c THEN "fast_path" ELSE "idle"]
            /\ result' = [d \in Callers |-> NoResult]
            /\ path' = [d \in Callers |-> "none"]
            /\ fetched' = [d \in Callers |-> "no"]
            /\ group_base' = fetch_calls
            /\ group_token' = access_token
            /\ group_mixed' = FALSE
       ELSE /\ pc' = [pc EXCEPT ![c] = "fast_path"]
            /\ result' = [result EXCEPT ![c] = NoResult]
            /\ path' = [path EXCEPT ![c] = "none"]
            /\ fetched' = [fetched EXCEPT ![c] = "no"]
            /\ group_mixed' = (group_mixed \/ \E d \in Callers : pc[d] = "done")
            /\ UNCHANGED <<group_base, group_token>>
    /\ UNCHANGED <<shared, now, builder, fetch_calls>>

CallStart(c, f) ==
    /\ CallEnter(c, f)
    /\ UNCHANGED pure

\* First check: read().await, is_token_expired, return the clone or go on.
\* The read guard is taken, used and dropped without an await in between.
FastPath(c) ==
    /\ pc[c] = "fast_path"
    /\ writer = None
    /\ IF ~is_token_expired(access_token, now)
       THEN /\ pc' = [pc EXCEPT ![c] = "done"]
            /\ result' = [result EXCEPT ![c] = Ok(access_token.access_token)]
            /\ path' = [path EXCEPT ![c] = "fast"]
       ELSE /\ pc' = [pc EXCEPT ![c] = "cas"]
            /\ UNCHANGED <<result, path>>
    /\ UNCHANGED <<shared, now, force, builder, fetched, history>>
    /\ UNCHANGED pure

\* a load in place of the compare-exchange: the flag is tested, never set
CasWin_load(c) ==
    /\ pc[c] = "cas"
    /\ compare_exchange(refreshing, FALSE)
    /\ pc' = [pc EXCEPT ![c] = "write_lock"]
    /\ path' = [path EXCEPT ![c] = "winner"]
    /\ UNCHANGED <<shared, now, force, builder, result, fetched, history>>
    /\ UNCHANGED pure

\* refreshing.compare_exchange(false, true, AcqRel, Acquire) succeeds.
CasWin(c) ==
    /\ pc[c] = "cas"
    /\ compare_exchange(refreshing, FALSE)
    /\ refreshing' = TRUE
    /\ pc' = [pc EXCEPT ![c] = "write_lock"]
    /\ path' = [path EXCEPT ![c] = "winner"]
    /\ UNCHANGED <<access_token, writer, notify, now, force, builder,
                   result, fetched, history>>
    /\ UNCHANGED pure

\* The compare_exchange fails: the else branch is taken.
CasLose(c) ==
    /\ pc[c] = "cas"
    /\ ~compare_exchange(refreshing, FALSE)
    /\ pc' = [pc EXCEPT ![c] = "notified"]
    /\ path' = [path EXCEPT ![c] = "loser"]
    /\ UNCHANGED <<shared, now, force, builder, result, fetched, history>>
    /\ UNCHANGED pure

\* refresh_access_token / refresh_stable_access_token: write().await
WriteLock(c) ==
    /\ pc[c] = "write_lock"
    /\ writer = None
    /\ writer' = c
    /\ pc' = [pc EXCEPT ![c] = "double_check"]
    /\ UNCHANGED <<access_token, refreshing, notify, now, force, builder,
                   result, path, fetched, history>>
    /\ UNCHANGED pure

\* the guard dropped after the double check, before the fetch
GuardAfterCheck_dropped(c, expired) == None

\* The guard is released when the double check returns early.
GuardAfterCheck(c, expired) == IF expired THEN c ELSE None

\* the refresh without its double check: the winner always fetches
DoubleCheck_always_fetch(c) ==
    /\ pc[c] = "double_check"
    /\ writer' = c
    /\ pc' = [pc EXCEPT ![c] = "fetching"]
    /\ fetched' = [fetched EXCEPT ![c] = "pending"]
    /\ fetch_calls' = fetch_calls + 1
    /\ UNCHANGED <<access_token, refreshing, notify, now, force, builder,
                   result, path, calls, group_base, group_token, group_mixed>>
    /\ UNCHANGED pure

\* Second check under the write guard; a stale token starts the fetch.
DoubleCheck(c) ==
    /\ pc[c] = "double_check"
    /\ LET expired == is_token_expired(access_token, now) IN
       /\ writer' = GuardAfterCheck(c, expired)
       /\ IF ~expired
          THEN /\ pc' = [pc EXCEPT ![c] = "release"]
               /\ result' = [result EXCEPT ![c] = Ok(access_token.access_token)]
               /\ UNCHANGED <<fetched, fetch_calls>>
          ELSE /\ pc' = [pc EXCEPT ![c] = "fetching"]
               /\ fetched' = [fetched EXCEPT ![c] = "pending"]
               /\ fetch_calls' = fetch_calls + 1
               /\ UNCHANGED result
    /\ UNCHANGED <<access_token, refreshing, notify, now, force, builder,
                   path, calls, group_base, group_token, group_mixed>>
    /\ UNCHANGED pure

\* get_access_token(..).await? returns Ok(builder): the n-th fetch returns
\* token n, and expired_at is computed when the response is parsed.
FetchOk(c, ttl) ==
    /\ pc[c] = "fetching"
    /\ builder' = [builder EXCEPT ![c] =
                      AccessToken(fetch_calls, deserialize_expired_at(now, ttl))]
    /\ pc' = [pc EXCEPT ![c] = "store_token"]
    /\ fetched' = [fetched EXCEPT ![c] = IF ttl > Margin THEN "ok" ELSE "ok_short"]
    /\ UNCHANGED <<shared, now, force, result, path, history>>
    /\ UNCHANGED pure

\* the fetch error swallowed: the cached token is returned as Ok
FetchErr_swallowed(c) ==
    /\ pc[c] = "fetching"
    /\ result' = [result EXCEPT ![c] = Ok(access_token.access_token)]
    /\ writer' = None
    /\ pc' = [pc EXCEPT ![c] = "release"]
    /\ fetched' = [fetched EXCEPT ![c] = "err"]
    /\ UNCHANGED <<access_token, refreshing, notify, now, force, builder,
                   path, history>>
    /\ UNCHANGED pure

\* the cache invalidated when the fetch fails
FetchErr_invalidate(c) ==
    /\ pc[c] = "fetching"
    /\ result' = [result EXCEPT ![c] = Err]
    /\ access_token' = AccessToken(EmptyToken, 0)
    /\ writer' = None
    /\ pc' = [pc EXCEPT ![c] = "release"]
    /\ fetched' = [fetched EXCEPT ![c] = "err"]
    /\ UNCHANGED <<refreshing, notify, now, force, builder, path, history>>
    /\ UNCHANGED pure

\* get_access_token(..).await? returns Err: `?` returns it, the guard drops.
FetchErr(c) ==
    /\ pc[c] = "fetching"
    /\ result' = [result EXCEPT ![c] = Err]
    /\ writer' = None
    /\ pc' = [pc EXCEPT ![c] = "release"]
    /\ fetched' = [fetched EXCEPT ![c] = "err"]
    /\ UNCHANGED <<access_token, refreshing, notify, now, force, builder,
                   path, history>>
    /\ UNCHANGED pure

\* the assignment of the token value left out
StoreToken_skipped(c) ==
    /\ pc[c] = "store_token"
    /\ pc' = [pc EXCEPT ![c] = "store_expiry"]
    /\ UNCHANGED <<shared, now, force, builder, result, path, fetched, history>>
    /\ UNCHANGED pure

\* guard.access_token = builder.access_token.clone()
StoreToken(c) ==
    /\ pc[c] = "store_token"
    /\ access_token' = [access_token EXCEPT !.access_token = builder[c].access_token]
    /\ pc' = [pc EXCEPT ![c] = "store_expiry"]
    /\ UNCHANGED <<writer, refreshing, notify, now, force, builder,
                   result, path, fetched, history>>
    /\ UNCHANGED pure

\* guard.expired_at = builder.expired_at; Ok(guard.access_token.clone())
StoreExpiry(c) ==
    /\ pc[c] = "store_expiry"
    /\ access_token' = [access_token EXCEPT !.expired_at = builder[c].expired_at]
    /\ result' = [result EXCEPT ![c] = Ok(access_token.access_token)]
    /\ builder' = [builder EXCEPT ![c] = NoBuilder]
    /\ writer' = None
    /\ pc' = [pc EXCEPT ![c] = "release"]
    /\ UNCHANGED <<refreshing, notify, now, force, path, fetched, history>>
    /\ UNCHANGED pure

\* the Err arm returning without clearing the flag
Release_ok_only(c) ==
    /\ pc[c] = "release"
    /\ refreshing' = IF result[c] = Err THEN refreshing ELSE FALSE
    /\ pc' = [pc EXCEPT ![c] = "notify_waiters"]
    /\ UNCHANGED <<access_token, writer, notify, now, force, builder,
                   result, path, fetched, history>>
    /\ UNCHANGED pure

\* refreshing.store(false, Release), in both match arms
Release(c) ==
    /\ pc[c] = "release"
    /\ refreshing' = FALSE
    /\ pc' = [pc EXCEPT ![c] = "notify_waiters"]
    /\ UNCHANGED <<access_token, writer, notify, now, force, builder,
                   result, path, fetched, history>>
    /\ UNCHANGED pure

\* the Err arm returning without the broadcast
NotifyWaiters_ok_only(c) ==
    /\ pc[c] = "notify_waiters"
    /\ notify' = IF result[c] = Err THEN notify ELSE {}
    /\ pc' = [pc EXCEPT ![c] = "done"]
    /\ UNCHANGED <<access_token, writer, refreshing, now, force, builder,
                   result, path, fetched, history>>
    /\ UNCHANGED pure

\* notify.notify_waiters(): every pending Notified future completes; then
\* the match arm returns Ok(token) or Err(e).
NotifyWaiters(c) ==
    /\ pc[c] = "notify_waiters"
    /\ notify' = {}
    /\ pc' = [pc EXCEPT ![c] = "done"]
    /\ UNCHANGED <<access_token, writer, refreshing, now, force, builder,
                   result, path, fetched, history>>
    /\ UNCHANGED pure

\* notify.notified(): the Notified future is created and from now on
\* receives notify_waiters().
Notified(c) ==
    /\ pc[c] = "notified"
    /\ notify' = notify \cup {c}
    /\ pc' = [pc EXCEPT ![c] = "waiting"]
    /\ UNCHANGED <<access_token, writer, refreshing, now, force, builder,
                   result, path, fetched, history>>
    /\ UNCHANGED pure

\* .await on the Notified future returns once notify_waiters() has run.
Wake(c) ==
    /\ pc[c] = "waiting"
    /\ c \notin notify
    /\ pc' = [pc EXCEPT ![c] = "reread"]
    /\ UNCHANGED <<shared, now, force, builder, result, path, fetched,
                   history>>
    /\ UNCHANGED pure

\* the else branch reporting an error when the state holds no token
LoserResult_err(token) ==
    IF token.access_token = EmptyToken THEN Err ELSE Ok(token.access_token)

\* What the else branch returns after the wait.
LoserResult(token) == Ok(token.access_token)

\* read().await; Ok(guard.access_token.clone())
Reread(c) ==
    /\ pc[c] = "reread"
    /\ writer = None
    /\ result' = [result EXCEPT ![c] = LoserResult(access_token)]
    /\ pc' = [pc EXCEPT ![c] = "done"]
    /\ UNCHANGED <<shared, now, force, builder, path, fetched, history>>
    /\ UNCHANGED pure

\* The clock advances by a minute.
Tick ==
    /\ now < MaxTime
    /\ now' = now + 1
    /\ UNCHANGED <<shared, pc, force, builder, result, path, fetched,
                   history>>
    /\ UNCHANGED pure

Step(c) ==
    \/ FastPath(c)
    \/ CasWin(c)
    \/ CasLose(c)
    \/ WriteLock(c)
    \/ DoubleCheck(c)
    \/ \E ttl \in TTLs : FetchOk(c, ttl)
    \/ FetchErr(c)
    \/ StoreToken(c)
    \/ StoreExpiry(c)
    \/ Release(c)
    \/ NotifyWaiters(c)
    \/ Notified(c)
    \/ Wake(c)
    \/ Reread(c)

Next ==
    \/ \E c \in Callers, f \in ForceArgs : CallStart(c, f)
    \/ \E c \in Callers : FastPath(c)
    \/ \E c \in Callers : CasWin(c)
    \/ \E c \in Callers : CasLose(c)
    \/ \E c \in Callers : WriteLock(c)
    \/ \E c \in Callers : DoubleCheck(c)
    \/ \E c \in Callers, ttl \in TTLs : FetchOk(c, ttl)
    \/ \E c \in Callers : FetchErr(c)
    \/ \E c \in Callers : StoreToken(c)
    \/ \E c \in Callers : StoreExpiry(c)
    \/ \E c \in Callers : Release(c)
    \/ \E c \in Callers : NotifyWaiters(c)
    \/ \E c \in Callers : Notified(c)
    \/ \E c \in Callers : Wake(c)
    \/ \E c \in Callers : Reread(c)
    \/ Tick

Spec == Init /\ [][Next]_vars

\* The runtime schedules every task that can run, and the fetch terminates;
\* nothing obliges anyone to start a call or the clock to advance.
FairSpec == Spec /\ \A c \in Callers : WF_vars(Step(c))

\* One Client used through both methods: task 1 calls access_token(), every
\* other task calls stable_access_token(force_refresh).
Flavor(c) == IF c = 1 THEN "normal" ELSE "stable"

\* access_token() takes no argument
FlavorArgs(c) == IF Flavor(c) = "normal" THEN {"None"} ELSE ForceArgs

NextFlavor ==
    \/ \E c \in Callers : \E f \in FlavorArgs(c) : CallStart(c, f)
    \/ \E c \in Callers : Step(c)
    \/ Tick

FlavorSpec == Init /\ [][NextFlavor]_vars

NextNoForce ==
    \/ \E c \in Callers : CallStart(c, "None")
    \/ \E c \in Callers : Step(c)
    \/ Tick

\* No call ever asks for a forced refresh.
NoForceSpec == Init /\ [][NextNoForce]_vars

\* ---------------------------------------------------------- cancellation
\* The points at which a call is suspended: read().await, write().await,
\* the fetch's .await and notified().await.
AwaitPoints == {"fast_path", "write_lock", "fetching", "waiting", "reread"}

\* a drop that also clears the flag, whoever owns it
Cancel_clears_flag(c) ==
    /\ pc[c] \in AwaitPoints
    /\ pc' = [pc EXCEPT ![c] = "done"]
    /\ result' = [result EXCEPT ![c] = NoResult]
    /\ writer' = IF writer = c THEN None ELSE writer
    /\ notify' = notify \ {c}
    /\ refreshing' = FALSE
    /\ UNCHANGED <<access_token, now, force, builder, path, fetched, history>>
    /\ UNCHANGED pure

\* The caller drops the future of its call at an await point: the guard it
\* holds and its Notified future are dropped with it, the call returns
\* nothing, and nothing else runs (there is no drop guard on `refreshing`).
Cancel(c) ==
    /\ pc[c] \in AwaitPoints
    /\ pc' = [pc EXCEPT ![c] = "done"]
    /\ result' = [result EXCEPT ![c] = NoResult]
    /\ writer' = IF writer = c THEN None ELSE writer
    /\ notify' = notify \ {c}
    /\ UNCHANGED <<access_token, refreshing, now, force, builder, path,
                   fetched, history>>
    /\ UNCHANGED pure

\* A loser gives up while suspended on notified().await.
Abandon(c) == pc[c] = "waiting" /\ Cancel(c)

NextAbandon ==
    \/ Next
    \/ \E c \in Callers : Abandon(c)

\* Losers may abandon their calls.
AbandonSpec == Init /\ [][NextAbandon]_vars

NextCancel ==
    \/ Next
    \/ \E c \in Callers : Cancel(c)

\* Any call may be dropped at any of its await points.
CancelSpec == Init /\ [][NextCancel]_vars

\* ------------------------------------------------------ QrCodeArgBuilder
\* Option<T>: Some(x) is {x}, None is {}
Some(x) == {x}
Nothing == {}

\* Error::InvalidParameter(message)
InvalidParameter == [ok |-> FALSE, val |-> "InvalidParameter"]

\* A path is represented by v.len(), its length in bytes.
PathLens == {0, 1, PathLimit - 1} \cup (PathLimit .. PathLimit + MaxExcess)
Widths == {280, 430}
Rgbs == {<<0, 0, 0>>, <<255, 0, 0>>}
MinappEnvVersions == {"release", "trial", "develop"}

\* QrCodeArgBuilder::new
QrCodeArgBuilder_new ==
    [path |-> Nothing, width |-> Nothing, auto_color |-> Nothing,
     line_color |-> Nothing, is_hyaline |-> Nothing, env_version |-> Nothing]

\* the limit itself rejected (>= in place of >)
QrCodeArgBuilder_build_ge(b) ==
    IF b.path = Nothing
    THEN InvalidParameter
    ELSE LET v == CHOOSE x \in b.path : TRUE
         IN  IF v >= PathLimit
             THEN InvalidParameter
             ELSE Ok([path |-> v, width |-> b.width,
                      auto_color |-> b.auto_color, line_color |-> b.line_color,
                      is_hyaline |-> b.is_hyaline, env_version |-> b.env_version])

\* QrCodeArgBuilder::build
QrCodeArgBuilder_build(b) ==
    IF b.path = Nothing
    THEN InvalidParameter
    ELSE LET v == CHOOSE x \in b.path : TRUE
         IN  IF v > PathLimit
             THEN InvalidParameter
             ELSE Ok([path |-> v, width |-> b.width,
                      auto_color |-> b.auto_color, line_color |-> b.line_color,
                      is_hyaline |-> b.is_hyaline, env_version |-> b.env_version])

InitQr ==
    /\ NewClient
    /\ arg = QrCodeArgBuilder_new
    /\ ret = NoRet

qr_path(p) ==
    /\ ret = NoRet
    /\ arg' = [arg EXCEPT !.path = Some(p)]
    /\ UNCHANGED <<client, ret>>

qr_width(w) ==
    /\ ret = NoRet
    /\ arg' = [arg EXCEPT !.width = Some(w)]
    /\ UNCHANGED <<client, ret>>

qr_with_auto_color ==
    /\ ret = NoRet
    /\ arg' = [arg EXCEPT !.auto_color = Some(TRUE)]
    /\ UNCHANGED <<client, ret>>

qr_line_color(color) ==
    /\ ret = NoRet
    /\ arg' = [arg EXCEPT !.line_color = Some(color)]
    /\ UNCHANGED <<client, ret>>

qr_with_is_hyaline ==
    /\ ret = NoRet
    /\ arg' = [arg EXCEPT !.is_hyaline = Some(TRUE)]
    /\ UNCHANGED <<client, ret>>

qr_env_version(version) ==
    /\ ret = NoRet
    /\ arg' = [arg EXCEPT !.env_version = Some(version)]
    /\ UNCHANGED <<client, ret>>

\* build(self): the builder is consumed, nothing can be set afterwards
qr_build ==
    /\ ret = NoRet
    /\ ret' = QrCodeArgBuilder_build(arg)
    /\ UNCHANGED <<client, arg>>

NextQr ==
    \/ \E p \in PathLens : qr_path(p)
    \/ \E w \in Widths : qr_width(w)
    \/ qr_with_auto_color
    \/ \E color \in Rgbs : qr_line_color(color)
    \/ qr_with_is_hyaline
    \/ \E version \in MinappEnvVersions : qr_env_version(version)
    \/ qr_build

QrSpec == InitQr /\ [][NextQr]_vars

\* ------------------------------------------ msg_sec_check::ArgsBuilder
\* The content is represented by content.len(), its length in bytes.
ContentLens == {0, ContentLimit - 1} \cup (ContentLimit .. ContentLimit + MaxExcess)
Versions == {1, DefaultVersion}
Scenes == {"Profile", "Comment", "Forum", "SocialLog"}
Texts == {"a", "b"}          \* openid, title, nickname, signature

\* Result<()>::Ok(())
OkUnit == [ok |-> TRUE, val |-> "()"]

\* ArgsBuilder::new (Default: every field None)
ArgsBuilder_new ==
    [content |-> Nothing, version |-> Nothing, scene |-> Nothing,
     openid |-> Nothing, title |-> Nothing, nickname |-> Nothing,
     signature |-> Nothing]

The(opt) == CHOOSE x \in opt : TRUE          \* the value inside Some(x)

\* Option::unwrap_or
unwrap_or(opt, default) == IF opt = Nothing THEN default ELSE The(opt)

\* the check that ties the signature to the Profile scene left out
ArgsBuilder_build_nosig(b) ==
    IF b.content = Nothing \/ b.scene = Nothing \/ b.openid = Nothing
    THEN InvalidParameter
    ELSE IF The(b.content) > ContentLimit
    THEN InvalidParameter
    ELSE Ok([content |-> The(b.content),
             version |-> unwrap_or(b.version, DefaultVersion),
             scene |-> The(b.scene), openid |-> The(b.openid),
             title |-> b.title, nickname |-> b.nickname,
             signature |-> b.signature])

\* ArgsBuilder::build
ArgsBuilder_build(b) ==
    IF b.content = Nothing \/ b.scene = Nothing \/ b.openid = Nothing
    THEN InvalidParameter
    ELSE IF The(b.content) > ContentLimit
    THEN InvalidParameter
    ELSE IF b.signature # Nothing /\ The(b.scene) # "Profile"
    THEN InvalidParameter
    ELSE Ok([content |-> The(b.content),
             version |-> unwrap_or(b.version, DefaultVersion),
             scene |-> The(b.scene), openid |-> The(b.openid),
             title |-> b.title, nickname |-> b.nickname,
             signature |-> b.signature])

\* Args::is_profile_scene
is_profile_scene(a) == a.scene = "Profile"

\* Args::validate
Args_validate(a) ==
    IF a.content > ContentLimit
    THEN InvalidParameter
    ELSE IF a.signature # Nothing /\ ~is_profile_scene(a)
    THEN InvalidParameter
    ELSE OkUnit

InitArgs ==
    /\ NewClient
    /\ arg = ArgsBuilder_new
    /\ ret = NoRet

ab_content(content) ==
    /\ ret = NoRet
    /\ arg' = [arg EXCEPT !.content = Some(content)]
    /\ UNCHANGED <<client, ret>>

ab_version(version) ==
    /\ ret = NoRet
    /\ arg' = [arg EXCEPT !.version = Some(version)]
    /\ UNCHANGED <<client, ret>>

ab_scene(scene) ==
    /\ ret = NoRet
    /\ arg' = [arg EXCEPT !.scene = Some(scene)]
    /\ UNCHANGED <<client, ret>>

ab_openid(openid) ==
    /\ ret = NoRet
    /\ arg' = [arg EXCEPT !.openid = Some(openid)]
    /\ UNCHANGED <<client, ret>>

ab_title(title) ==
    /\ ret = NoRet
    /\ arg' = [arg EXCEPT !.title = Some(title)]
    /\ UNCHANGED <<client, ret>>

ab_nickname(nickname) ==
    /\ ret = NoRet
    /\ arg' = [arg EXCEPT !.nickname = Some(nickname)]
    /\ UNCHANGED <<client, ret>>

ab_signature(signature) ==
    /\ ret = NoRet
    /\ arg' = [arg EXCEPT !.signature = Some(signature)]
    /\ UNCHANGED <<client, ret>>

\* build(self) consumes the builder
ab_build ==
    /\ ret = NoRet
    /\ ret' = ArgsBuilder_build(arg)
    /\ UNCHANGED <<client, arg>>

\* args.validate() on the Args that build returned
ab_validate ==
    /\ ret.ok
    /\ DOMAIN ret = {"ok", "val"}
    /\ ret' = [ok |-> TRUE, val |-> ret.val, validate |-> Args_validate(ret.val)]
    /\ UNCHANGED <<client, arg>>

NextArgs ==
    \/ \E content \in ContentLens : ab_content(content)
    \/ \E version \in Versions : ab_version(version)
    \/ \E scene \in Scenes : ab_scene(scene)
    \/ \E openid \in Texts : ab_openid(openid)
    \/ \E title \in Texts : ab_title(title)
    \/ \E nickname \in Texts : ab_nickname(nickname)
    \/ \E signature \in Texts : ab_signature(signature)
    \/ ab_build
    \/ ab_validate

ArgsSpec == InitArgs /\ [][NextArgs]_vars

\* --------------------------------------------------------------- Suggest
\* A &str is a sequence of characters.  Characters with a lowercase mapping
\* (char::to_lowercase), paired with it: the ASCII capitals of the letters
\* in use and U+212A KELVIN SIGN, whose lowercase is k.  Every other
\* character, U+017F LONG S included, is its own lowercase.
UpperPairs ==
    {<<"R", "r">>, <<"I", "i">>, <<"S", "s">>, <<"K", "k">>, <<"Y", "y">>,
     <<"P", "p">>, <<"A", "a">>, <<"E", "e">>, <<"V", "v">>, <<"W", "w">>,
     <<"KELVIN", "k">>}

\* char::to_lowercase
char_to_lowercase(ch) ==
    IF \E q \in UpperPairs : q[1] = ch
    THEN (CHOOSE q \in UpperPairs : q[1] = ch)[2]
    ELSE ch

\* str::to_lowercase
to_lowercase(str) == [i \in DOMAIN str |-> char_to_lowercase(str[i])]

\* the match on the string as given, without to_lowercase()
Suggest_from_exact(str) ==
    CASE str = <<"r", "i", "s", "k", "y">> -> "Risky"
      [] str = <<"p", "a", "s", "s">> -> "Pass"
      [] str = <<"r", "e", "v", "i", "e", "w">> -> "Review"
      [] OTHER -> "Review"

\* impl From<&str> for Suggest
Suggest_from(str) ==
    LET low == to_lowercase(str)
    IN  CASE low = <<"r", "i", "s", "k", "y">> -> "Risky"
          [] low = <<"p", "a", "s", "s">> -> "Pass"
          [] low = <<"r", "e", "v", "i", "e", "w">> -> "Review"
          [] OTHER -> "Review"

\* Suggest::is_pass / is_risky / needs_review / priority
is_pass(sg) == sg = "Pass"
is_risky(sg) == sg = "Risky"
needs_review(sg) == sg = "Review"
priority(sg) ==
    CASE sg = "Risky" -> 1
      [] sg = "Review" -> 2
      [] sg = "Pass" -> 3

\* the case variants of a character: itself and what lowercases to it
Variants(ch) == {ch} \cup {q[1] : q \in {r \in UpperPairs : r[2] = ch}}

RECURSIVE Casings(_)
\* every casing of the word w
Casings(w) ==
    IF w = <<>>
    THEN {<<>>}
    ELSE {<<h>> \o t : h \in Variants(Head(w)), t \in Casings(Tail(w))}

\* strings that are no casing of one of the three words
OtherStrs ==
    {<<>>, <<"p", "a", "s">>, <<"P", "A", "S", "S", "S">>,
     <<"r", "i", "s", "k">>, <<"y", "k", "s", "i", "r">>,
     <<"p", "a", "LONG_S", "s">>, <<"p", "a", "s", "s", " ">>,
     <<"r", "e", "v", "i", "e", "w", "s">>, <<"0">>}

SuggestInputs ==
    Casings(<<"r", "i", "s", "k", "y">>) \cup Casings(<<"p", "a", "s", "s">>)
        \cup Casings(<<"r", "e", "v", "i", "e", "w">>) \cup OtherStrs

InitSuggest ==
    /\ NewClient
    /\ arg \in SuggestInputs
    /\ ret = NoRet

\* Suggest::from(arg)
suggest_from ==
    /\ ret = NoRet
    /\ ret' = Ok(Suggest_from(arg))
    /\ UNCHANGED <<client, arg>>

\* the four methods called on the Suggest obtained
suggest_methods ==
    /\ ret.ok
    /\ DOMAIN ret = {"ok", "val"}
    /\ ret' = [ok |-> TRUE, val |-> ret.val,
               is_pass |-> is_pass(ret.val), is_risky |-> is_risky(ret.val),
               needs_review |-> needs_review(ret.val),
               priority |-> priority(ret.val)]
    /\ UNCHANGED <<client, arg>>

NextSuggest ==
    \/ suggest_from
    \/ suggest_methods

SuggestSpec == InitSuggest /\ [][NextSuggest]_vars

\* ----------------------------------------------------- MsgSecCheckResult
Suggests == {"Risky", "Pass", "Review"}
Errcodes == {0, -1, 87014}

\* DetailResult, by the fields the methods read or that tell entries apart
DetailResults == [strategy : {"content_model", "keyword"}, errcode : {0, -1008}]

\* Vec<DetailResult>
DetailVecs == UNION {[1..n -> DetailResults] : n \in 0..MaxDetails}

\* ComprehensiveResult (the label is Normal throughout)
ComprehensiveResults == [suggest : Suggests, label : {"Normal"}]

MsgSecCheckResults ==
    [errcode : Errcodes,
     detail : {Nothing} \cup {Some(v) : v \in DetailVecs},
     result : {Nothing} \cup {Some(r) : r \in ComprehensiveResults}]

\* MsgSecCheckResult::is_success
MsgSecCheckResult_is_success(r) == r.errcode = 0

\* MsgSecCheckResult::get_suggest
get_suggest(r) == {x.suggest : x \in r.result}

\* MsgSecCheckResult::is_pass / is_risky / needs_review:
\* get_suggest().map(..).unwrap_or(false)
MsgSecCheckResult_is_pass(r) ==
    unwrap_or({is_pass(sg) : sg \in get_suggest(r)}, FALSE)
MsgSecCheckResult_is_risky(r) ==
    unwrap_or({is_risky(sg) : sg \in get_suggest(r)}, FALSE)
MsgSecCheckResult_needs_review(r) ==
    unwrap_or({needs_review(sg) : sg \in get_suggest(r)}, FALSE)

\* d.errcode == 0
IsValidDetail(d) == d.errcode = 0

\* the filter left out: every entry returned
get_valid_details_all(r) == unwrap_or(r.detail, <<>>)

\* MsgSecCheckResult::get_valid_details
get_valid_details(r) ==
    unwrap_or({SelectSeq(details, IsValidDetail) : details \in r.detail}, <<>>)

InitResult ==
    /\ NewClient
    /\ arg \in MsgSecCheckResults
    /\ ret = NoRet

\* the three suggest predicates and is_success called on the result
result_predicates ==
    /\ ret = NoRet
    /\ ret' = [ok |-> TRUE,
               is_success |-> MsgSecCheckResult_is_success(arg),
               is_pass |-> MsgSecCheckResult_is_pass(arg),
               is_risky |-> MsgSecCheckResult_is_risky(arg),
               needs_review |-> MsgSecCheckResult_needs_review(arg)]
    /\ UNCHANGED <<client, arg>>

\* get_valid_details called on the result
result_get_valid_details ==
    /\ ret = NoRet
    /\ ret' = [ok |-> TRUE, val |-> get_valid_details(arg)]
    /\ UNCHANGED <<client, arg>>

NextResult ==
    \/ result_predicates
    \/ result_get_valid_details

ResultSpec == InitResult /\ [][NextResult]_vars

\* ------------------------------------------------------------- clones
\* An Arc is the address of the allocation it points to; Arc::clone bumps
\* the reference count and returns the same address.
Arc_clone(p) == p

\* a clone that copies the allocations instead of sharing them
Client_clone_deep(h) ==
    [inner            |-> <<h.inner, "copy">>,
     access_token     |-> <<h.access_token, "copy">>,
     refreshing       |-> <<h.refreshing, "copy">>,
     notify           |-> <<h.notify, "copy">>,
     use_stable_token |-> h.use_stable_token]

\* #[derive(Clone)] on Client: every field is cloned, the four Arcs by
\* Arc::clone and the bool by copy.
Client_clone(h) ==
    [inner            |-> Arc_clone(h.inner),
     access_token     |-> Arc_clone(h.access_token),
     refreshing       |-> Arc_clone(h.refreshing),
     notify           |-> Arc_clone(h.notify),
     use_stable_token |-> h.use_stable_token]

\* Client::new: four new allocations, whose contents are the variables
\* access_token, refreshing and notify (NewClient), and the stable flavor.
Client_new ==
    [inner            |-> <<"inner">>,
     access_token     |-> <<"access_token">>,
     refreshing       |-> <<"refreshing">>,
     notify           |-> <<"notify">>,
     use_stable_token |-> TRUE]

\* Client::with_non_stable: the same, with the normal flavor.
Client_with_non_stable == [Client_new EXCEPT !.use_stable_token = FALSE]

\* `arg` is the sequence of Client handles in existence: the constructed
\* one, then its clones; task c makes its calls through handle c.
InitClone ==
    /\ NewClient
    /\ arg = <<Client_new>>
    /\ ret = NoRet

\* let client = client.clone();
client_clone(i) ==
    /\ i \in DOMAIN arg
    /\ Len(arg) < NumCallers
    /\ arg' = Append(arg, Client_clone(arg[i]))
    /\ UNCHANGED <<client, ret>>

\* a call made through the handle of task c (force_refresh plays no part
\* in what the handles share: the calls are the plain ones)
CallThrough(c, f) ==
    /\ c \in DOMAIN arg
    /\ CallStart(c, f)

NextClone ==
    \/ \E i \in Callers : client_clone(i)
    \/ \E c \in Callers : CallThrough(c, "None")
    \/ \E c \in Callers : Step(c)
    \/ Tick

CloneSpec == InitClone /\ [][NextClone]_vars

\* ----------------------------------------------------------- wrappers
\* Client::token: the method it awaits
token(h) ==
    IF h.use_stable_token THEN "stable_access_token(None)" ELSE "access_token()"

\* Args as msg_sec_check receives them.  The fields are public, so an Args
\* need not come out of ArgsBuilder::build: Args::new and a struct update
\* give any content with any scene and signature.  The four cases of
\* validate(): accepted, content too long, signature outside the Profile
\* scene, signature in the Profile scene.
WrapperArgs ==
    { [content |-> ContentLimit, scene |-> "Comment", signature |-> Nothing],
      [content |-> ContentLimit + MaxExcess, scene |-> "Comment",
       signature |-> Nothing],
      [content |-> ContentLimit, scene |-> "Comment", signature |-> Some("a")],
      [content |-> ContentLimit, scene |-> "Profile", signature |-> Some("a")] }

\* `arg` is the Client the wrappers are called on, `ret` the last wrapper
\* called: its name, the token method it awaited ("none" when it returned
\* before) and what the wrapper has returned so far ("none" while the call
\* of the token method, then the request, are under way).
InitWrapper ==
    /\ NewClient
    /\ arg \in {Client_new, Client_with_non_stable}
    /\ ret = NoRet

\* Client::qr_code up to self.token().await; the call of task c goes on as
\* the steps of the token method.
qr_code(c) ==
    /\ CallEnter(c, "None")
    /\ ret' = [wrapper |-> "qr_code", method |-> token(arg), val |-> "none"]
    /\ UNCHANGED arg

\* Client::get_contact up to self.token().await
get_contact(c) ==
    /\ CallEnter(c, "None")
    /\ ret' = [wrapper |-> "get_contact", method |-> token(arg), val |-> "none"]
    /\ UNCHANGED arg

\* Client::reset_session_key up to self.token().await
reset_session_key(c) ==
    /\ CallEnter(c, "None")
    /\ ret' = [wrapper |-> "reset_session_key", method |-> token(arg),
               val |-> "none"]
    /\ UNCHANGED arg

\* a msg_sec_check that asks for the token first and validates afterwards
msg_sec_check_token_first(c, a) ==
    /\ CallEnter(c, "None")
    /\ ret' = [wrapper |-> "msg_sec_check", method |-> "access_token()",
               val |-> IF Args_validate(a) = OkUnit THEN "none"
                       ELSE Args_validate(a).val,
               args |-> a]
    /\ UNCHANGED arg

\* Client::msg_sec_check up to self.access_token().await: args.validate()?
\* returns the error before anything else is done.
msg_sec_check(c, a) ==
    /\ pc[c] \in {"idle", "done"}
    /\ IF Args_validate(a) = OkUnit
       THEN /\ CallEnter(c, "None")
            /\ ret' = [wrapper |-> "msg_sec_check", method |-> "access_token()",
                       val |-> "none", args |-> a]
       ELSE /\ ret' = [wrapper |-> "msg_sec_check", method |-> "none",
                       val |-> Args_validate(a).val, args |-> a]
            /\ UNCHANGED client
    /\ UNCHANGED arg

NextWrapper ==
    \/ \E c \in Callers : qr_code(c)
    \/ \E c \in Callers : get_contact(c)
    \/ \E c \in Callers : reset_session_key(c)
    \/ \E c \in Callers : \E a \in WrapperArgs : msg_sec_check(c, a)
    \/ \E c \in Callers : Step(c)
    \/ Tick

WrapperSpec == InitWrapper /\ [][NextWrapper]_vars

\* msg_sec_check alone, on a Client built with new()
InitMsgSec ==
    /\ NewClient
    /\ arg = Client_new
    /\ ret = NoRet

NextMsgSec ==
    \/ \E c \in Callers : \E a \in WrapperArgs : msg_sec_check(c, a)
    \/ \E c \in Callers : Step(c)
    \/ Tick

MsgSecSpec == InitMsgSec /\ [][NextMsgSec]_vars

\* ------------------------------------------------------ content length
\* A String is UTF-8: every character takes one to four bytes.  A content
\* is given by how many characters of each width it holds; their order
\* changes neither of its lengths.
Utf8Widths == {1, 2, 3, 4}
CharCounts == {0, 1} \cup ((ContentLimit - 1) .. (ContentLimit + MaxExcess))
Contents == [Utf8Widths -> CharCounts]

\* String::len: the length in bytes
String_len(s) == s[1] + 2 * s[2] + 3 * s[3] + 4 * s[4]

\* str::chars().count(): the length in characters
chars_count(s) == s[1] + s[2] + s[3] + s[4]

\* Args::new(content, scene, openid), the content held as its len()
Args_new(content, scene, openid) ==
    [content |-> String_len(content), version |-> DefaultVersion,
     scene |-> scene, openid |-> openid,
     title |-> Nothing, nickname |-> Nothing, signature |-> Nothing]

\* Args::content_length
Args_content_length(a) == a.content

InitContent ==
    /\ NewClient
    /\ arg \in Contents
    /\ ret = NoRet

\* Args::builder().content(arg).scene(Scene::Comment).openid("a").build()
content_build ==
    /\ ret' = [op |-> "build",
               val |-> ArgsBuilder_build(
                          [ArgsBuilder_new EXCEPT
                             !.content = Some(String_len(arg)),
                             !.scene = Some("Comment"),
                             !.openid = Some("a")])]
    /\ UNCHANGED <<client, arg>>

\* Args::new(arg, Scene::Comment, "a").validate()
content_validate ==
    /\ ret' = [op |-> "validate",
               val |-> Args_validate(Args_new(arg, "Comment", "a"))]
    /\ UNCHANGED <<client, arg>>

\* Args::new(arg, Scene::Comment, "a").content_length()
content_length ==
    /\ ret' = [op |-> "content_length",
               val |-> Args_content_length(Args_new(arg, "Comment", "a"))]
    /\ UNCHANGED <<client, arg>>

NextContent ==
    \/ content_build
    \/ content_validate
    \/ content_length

ContentSpec == InitContent /\ [][NextContent]_vars

\* ----------------------------------------------------------- Debug output
\* The output of a Debug impl written with debug_struct: the name given to
\* it, then the fields in the order of the .field() calls, each with the
\* value passed to it.
Secrets == {"secret 1", "secret 2"}     \* an access_token or a session_key
Masked == "********"
Times == 0 .. MaxTime

\* AccessToken with its three fields, AccessTokenBuilder, Credential and
\* CredentialBuilder
AccessTokens ==
    [access_token : Secrets, expired_at : Times,
     force_refresh : {Nothing, Some(TRUE), Some(FALSE)}]
AccessTokenBuilders == [access_token : Secrets, expired_at : Times]
Credentials ==
    [open_id : Texts, session_key : Secrets,
     union_id : {Nothing} \cup {Some(t) : t \in Texts}]
CredentialBuilders == Credentials

\* what #[derive(Debug)] would print
Debug_AccessToken_derived(t) ==
    << "AccessToken",
       <<"access_token", t.access_token>>,
       <<"expired_at", t.expired_at>>,
       <<"force_refresh", t.force_refresh>> >>

\* impl Debug for AccessToken
Debug_AccessToken(t) ==
    << "StableAccessToken",
       <<"access_token", Masked>>,
       <<"expired_at", t.expired_at>>,
       <<"force_refresh", t.force_refresh>> >>

\* impl Debug for AccessTokenBuilder
Debug_AccessTokenBuilder(b) ==
    << "AccessTokenBuilder",
       <<"access_token", Masked>>,
       <<"expired_at", b.expired_at>> >>

\* impl Debug for Credential
Debug_Credential(cr) ==
    << "Credential",
       <<"open_id", cr.open_id>>,
       <<"session_key", Masked>>,
       <<"union_id", cr.union_id>> >>

\* impl Debug for CredentialBuilder
Debug_CredentialBuilder(cb) ==
    << "CredentialBuilder",
       <<"open_id", cb.open_id>>,
       <<"session_key", Masked>>,
       <<"union_id", cb.union_id>> >>

\* {:?} / {:#?} on a value of the given type
Debug_fmt(type, v) ==
    CASE type = "AccessToken" -> Debug_AccessToken(v)
      [] type = "AccessTokenBuilder" -> Debug_AccessTokenBuilder(v)
      [] type = "Credential" -> Debug_Credential(v)
      [] type = "CredentialBuilder" -> Debug_CredentialBuilder(v)

\* Two values of one type that differ at most in the secret they hold.
DebugInputs ==
    { [type |-> "AccessToken", a |-> x,
       b |-> [x EXCEPT !.access_token = sec]] :
          x \in AccessTokens, sec \in Secrets }
    \cup
    { [type |-> "AccessTokenBuilder", a |-> x,
       b |-> [x EXCEPT !.access_token = sec]] :
          x \in AccessTokenBuilders, sec \in Secrets }
    \cup
    { [type |-> "Credential", a |-> x,
       b |-> [x EXCEPT !.session_key = sec]] :
          x \in Credentials, sec \in Secrets }
    \cup
    { [type |-> "CredentialBuilder", a |-> x,
       b |-> [x EXCEPT !.session_key = sec]] :
          x \in CredentialBuilders, sec \in Secrets }

InitDebug ==
    /\ NewClient
    /\ arg \in DebugInputs
    /\ ret = NoRet

\* debug!("..: {:#?}", value), run on both values
debug_fmt ==
    /\ ret' = [log |-> "value",
               a |-> Debug_fmt(arg.type, arg.a),
               b |-> Debug_fmt(arg.type, arg.b)]
    /\ UNCHANGED <<client, arg>>

\* the guard of a Client::new token after the two stores of the refresher
Stored(b) ==
    [access_token |-> b.access_token, expired_at |-> b.expired_at,
     force_refresh |-> Nothing]

\* The end of refresh_access_token / refresh_stable_access_token, run on
\* both builders: the token and the expiry of the builder are stored and
\* debug!("fresh access token: {:#?}", guard) formats the guard.
refresh_log ==
    /\ arg.type = "AccessTokenBuilder"
    /\ ret' = [log |-> "fresh access token",
               a |-> Debug_AccessToken(Stored(arg.a)),
               b |-> Debug_AccessToken(Stored(arg.b))]
    /\ UNCHANGED <<client, arg>>

NextDebug ==
    \/ debug_fmt
    \/ refresh_log

DebugSpec == InitDebug /\ [][NextDebug]_vars

\* ================================================================ claims
\* Refresh ownership: between the successful compare-exchange and the
\* store that resets `refreshing`.
Owner(c) ==
    pc[c] \in {"write_lock", "double_check", "fetching", "store_token",
               "store_expiry", "release"}

Owners == {c \in Callers : Owner(c)}
Fetching == {c \in Callers : pc[c] = "fetching"}

\* The calls of the current busy period.
Group == {c \in Callers : pc[c] # "idle"}
GroupFetches == fetch_calls - group_base

\* C1: at every moment at most one caller holds refresh ownership, the flag
\* is true while somebody holds it, and at most one fetch is in flight.
C1_SingleRefresher ==
    /\ Cardinality(Owners) <= 1
    /\ Cardinality(Fetching) <= 1
    /\ Owners # {} => refreshing

\* C1 witness: a fetch is in flight while another caller has lost the
\* compare-exchange.
C1_Witness ==
    \E c, d \in Callers :
        /\ pc[c] = "fetching"
        /\ pc[d] \in {"notified", "waiting"}
        /\ refreshing

\* No step of any call can be taken: every caller has returned, or waits on
\* a Notified future that no running call is going to complete.
Quiescent ==
    \A c \in Callers :
        \/ pc[c] \in {"idle", "done"}
        \/ pc[c] = "waiting" /\ c \in notify

\* A group of N > 1 calls that all started before any of them returned and
\* all found the token stale at their first check.
StaleGroup ==
    /\ Cardinality(Group) > 1
    /\ ~group_mixed
    /\ \A c \in Group : path[c] \in {"winner", "loser"}

\* C2 (as claimed): N > 1 calls start on a stale token and the fetch
\* succeeds with a TTL beyond the margin; when nothing more can happen, the
\* fetched token still being fresh, the fetch was invoked exactly once and
\* every call has returned its token.
C2_SingleFlightSuccess ==
    ( /\ StaleGroup
      /\ Quiescent
      /\ \A c \in Group : fetched[c] \in {"no", "ok"}
      /\ access_token.access_token = group_base + 1
      /\ now + Margin < access_token.expired_at )
    => /\ GroupFetches = 1
       /\ \A c \in Group : pc[c] = "done" /\ result[c] = Ok(group_base + 1)

\* C3 (as claimed): under fair scheduling and a terminating fetch every call
\* eventually returns.
C3_EveryCallReturns ==
    \A c \in Callers : (pc[c] = "fast_path") ~> (pc[c] = "done")

\* C4: a call without force-refresh whose first check finds the token fresh
\* (now + margin < expires_at) returns a copy of the cached token in that
\* step, invoking no fetch and leaving the token, `refreshing`, the lock
\* and the wakeup signal as they were.
C4_FastPathFrame ==
    [][ \A c \in Callers :
          ( /\ pc[c] = "fast_path"
            /\ pc'[c] # "fast_path"
            /\ force[c] # "Some(true)"
            /\ now + Margin < access_token.expired_at )
          => /\ pc'[c] = "done"
             /\ result'[c] = Ok(access_token.access_token)
             /\ fetched'[c] = "no"
             /\ UNCHANGED <<access_token, writer, refreshing, notify, fetch_calls>>
      ]_vars

\* C4 witness: a non-forced call has returned a fetched token from the
\* fast path.
C4_Witness ==
    \E c \in Callers :
        /\ pc[c] = "done"
        /\ path[c] = "fast"
        /\ force[c] = "None"
        /\ now + Margin < access_token.expired_at
        /\ result[c] = Ok(access_token.access_token)
        /\ access_token.access_token # EmptyToken

\* C5 (as claimed): while a fetch is in flight the write guard is not held,
\* so another caller's read acquisition at its first check is not blocked.
C5_ReadersNotBlockedByFetch ==
    \A w, c \in Callers :
        (pc[w] = "fetching" /\ pc[c] = "fast_path") => writer = None

\* C5 (amended): the winner holds the write guard from its acquisition until
\* refresh_access_token / refresh_stable_access_token returns, the whole
\* fetch included, and nobody else ever holds it: a concurrent read
\* acquisition waits exactly for that.
C5_WinnerHoldsGuardAcrossFetch ==
    \A w \in Callers :
        (pc[w] \in {"double_check", "fetching", "store_token", "store_expiry"})
            <=> (writer = w)

\* C5 witness: a caller is at its first check while another one's fetch is
\* in flight under the write guard.
C5_Witness ==
    \E w, c \in Callers :
        /\ pc[w] = "fetching"
        /\ pc[c] = "fast_path"
        /\ writer = w

\* C6 (as claimed): a call with force_refresh = Some(true) never returns the
\* cached value from the first check.
C6_ForceBypassesFastPath ==
    \A c \in Callers :
        (pc[c] = "done" /\ force[c] = "Some(true)") => path[c] # "fast"

\* C7 (as claimed): two or more concurrent forced calls on a fresh token
\* collapse into exactly one fetch, whose token every one of them returns.
C7_ForcedCallsCollapse ==
    ( /\ Cardinality(Group) > 1
      /\ ~group_mixed
      /\ \A c \in Group : pc[c] = "done" /\ force[c] = "Some(true)"
      /\ \A c \in Group : fetched[c] \in {"no", "ok"}
      /\ now + Margin < group_token.expired_at )
    => /\ GroupFetches = 1
       /\ \A c \in Group : result[c] = Ok(group_base + 1)

C9_LoserRidesResult ==
    [][ \A c \in Callers :
          /\ (pc[c] = "cas" /\ refreshing /\ pc'[c] # "cas")
                => pc'[c] = "notified"
          /\ pc[c] = "notified" => pc'[c] \in {"notified", "waiting"}
          /\ pc[c] = "waiting" => pc'[c] \in {"waiting", "reread"}
          /\ pc[c] = "reread"
                => \/ pc'[c] = "reread"
                   \/ pc'[c] = "done" /\ result'[c] = Ok(access_token.access_token)
          /\ pc[c] \in {"notified", "waiting", "reread"}
                => /\ fetched'[c] = "no"
                   /\ path'[c] = "loser"
      ]_vars

\* C9 witness: the winner's fetch failed and the loser, woken, has returned
\* Ok.
C9_Witness ==
    \E c, d \in Callers :
        /\ pc[c] = "done" /\ path[c] = "loser" /\ result[c].ok
        /\ pc[d] = "done" /\ path[d] = "winner" /\ result[d] = Err

\* C10 (as claimed): an Ok result never carries the empty token the Client
\* was constructed with; it carries a token some fetch returned.
C10_OkIsFetchedToken ==
    \A c \in Callers :
        (pc[c] = "done" /\ result[c].ok)
            => /\ result[c].val # EmptyToken
               /\ result[c].val \in 1..fetch_calls

\* C11: a winner returns only after refreshing.store(false) and then
\* notify_waiters(), whether its refresh ended in a stored token, an error
\* or the double check's early return; the broadcast completes the Notified
\* future of every caller suspended at that moment.
C11_ReleaseAndBroadcast ==
    [][ \A c \in Callers :
          /\ (pc[c] \in {"double_check", "fetching", "store_expiry"}
                /\ pc'[c] \notin {pc[c], "fetching", "store_token"})
                => pc'[c] = "release"
          /\ (pc[c] = "release" /\ pc'[c] # "release")
                => pc'[c] = "notify_waiters" /\ ~refreshing'
          /\ (pc[c] = "notify_waiters" /\ pc'[c] # "notify_waiters")
                => /\ pc'[c] = "done"
                   /\ \A d \in Callers : pc[d] = "waiting" => d \notin notify'
          /\ (path[c] = "winner" /\ pc[c] # "done" /\ pc'[c] = "done")
                => pc[c] = "notify_waiters"
      ]_vars

\* C11 witness: the winner's fetch failed, it has returned, and the caller
\* that was suspended has been released by its broadcast.
C11_Witness ==
    \E c, d \in Callers :
        /\ pc[c] = "done" /\ path[c] = "winner" /\ fetched[c] = "err"
        /\ pc[d] = "reread" /\ path[d] = "loser"
        /\ ~refreshing

\* C12: whenever a fetch is in flight `refreshing` is true.
C12_FlagCoversFetch ==
    \A c \in Callers : pc[c] = "fetching" => refreshing

\* C12 witness: a caller is about to test the flag while another caller's
\* fetch is in flight.
C12_Witness ==
    \E c, d \in Callers :
        /\ pc[c] = "fetching"
        /\ pc[d] = "cas"
        /\ refreshing

\* C13: when the fetch fails the cached token and its expiry stay what they
\* were before the attempt: as long as the failed fetch is the only fetch of
\* the busy period, the state holds the token and expiry the period began
\* with, during the winner's store(false) and broadcast and after its return.
C13_FailureLeavesToken ==
    \A c \in Callers :
        (fetched[c] = "err" /\ GroupFetches = 1) => access_token = group_token

\* C13 witness: a fetched token was cached, a later refresh of it failed and
\* the token is still there.
C13_Witness ==
    \E c \in Callers :
        /\ pc[c] = "done" /\ fetched[c] = "err" /\ GroupFetches = 1
        /\ access_token.access_token # EmptyToken

\* C14: the winner returns the outcome of its fetch: after a successful fetch
\* the state holds the fetched token and expiry and the call's result is
\* Ok of that token, after a failed fetch the result is Err; store(false) and
\* the broadcast leave the result alone; a result becomes Err only in the
\* step in which the caller's own fetch fails.
C14_WinnerReturnsFetchOutcome ==
    [][ \A c \in Callers :
          /\ (pc[c] = "store_expiry" /\ pc'[c] = "release")
                => /\ access_token' = builder[c]
                   /\ result'[c] = Ok(builder[c].access_token)
          /\ (pc[c] = "fetching" /\ pc'[c] = "release")
                => result'[c] = Err /\ fetched'[c] = "err"
          /\ (pc[c] \in {"release", "notify_waiters"} /\ pc'[c] # pc[c])
                => result'[c] = result[c]
          /\ (result'[c] = Err /\ result[c] # Err) => pc[c] = "fetching"
      ]_vars

\* C14 witness: a winner has returned Ok of the token its fetch brought, which
\* is the token in the state, while another caller is still in its call.
C14_Witness ==
    \E c, d \in Callers :
        /\ pc[c] = "done" /\ path[c] = "winner" /\ fetched[c] = "ok"
        /\ result[c] = Ok(fetch_calls)
        /\ access_token.access_token = fetch_calls
        /\ c # d /\ Active(d)

\* the call c is the only call of its busy period
Solo(c) == Group = {c} /\ ~group_mixed

\* C15: `refreshing` is true only while some winner is between its
\* compare-exchange and its store(false); and a call made alone on a token
\* that is stale (whatever refresh failed before it) never loses the
\* arbitration nor waits: it returns as the winner of exactly one fetch, with
\* that fetch's token or error.
C15_NoPoisoning ==
    /\ (\A c \in Callers : ~Owner(c)) => ~refreshing
    /\ \A c \in Callers :
        (Solo(c) /\ group_token.expired_at < Margin) =>
            /\ path[c] \in {"none", "winner"}
            /\ pc[c] = "done" =>
                /\ path[c] = "winner"
                /\ GroupFetches = 1
                /\ fetched[c] = "err" => result[c] = Err
                /\ fetched[c] # "err" => result[c] = Ok(fetch_calls)

\* C15 witness: every earlier fetch failed (the state still holds the empty
\* token) and the next call, made alone, has fetched and returned a token.
C15_Witness ==
    \E c \in Callers :
        /\ Solo(c) /\ pc[c] = "done"
        /\ group_base >= 1
        /\ group_token = AccessToken(EmptyToken, 0)
        /\ fetched[c] = "ok" /\ result[c] = Ok(fetch_calls)

\* C16: token value and expiry are replaced only by the holder of the write
\* guard, the second assignment completes the pair of one fetch result, and
\* no first check or re-read takes place between the two assignments.
C16_AtomicPairing ==
    [][ /\ access_token' # access_token
            => /\ writer # None
               /\ pc[writer] \in {"store_token", "store_expiry"}
        /\ \A c \in Callers :
            /\ (pc[c] = "store_expiry" /\ pc'[c] # pc[c])
                  => access_token' = builder[c]
            /\ (pc[c] \in {"fast_path", "reread"} /\ pc'[c] # pc[c])
                  => /\ writer = None
                     /\ \A w \in Callers : pc[w] # "store_expiry"
      ]_vars

\* C16 witness: the state holds the new value with the old expiry under the
\* write guard while a reader is waiting for the read lock.
C16_Witness ==
    \E w, r \in Callers :
        /\ pc[w] = "store_expiry" /\ writer = w
        /\ access_token.access_token = builder[w].access_token
        /\ access_token.expired_at # builder[w].expired_at
        /\ pc[r] \in {"fast_path", "reread"}

\* C17: a new Client holds the empty token and is stale; the first call wins,
\* fetches exactly once and returns that fetch's outcome (the token, when the
\* fetch succeeds); a second call made alone while that token is inside its
\* freshness window returns the same token from the first check, no fetch.
C17_FirstAndSecondCall ==
    /\ calls = 0 =>
          /\ access_token.access_token = EmptyToken
          /\ access_token.expired_at < now + Margin
    /\ \A c \in Callers :
        /\ (calls = 1 /\ pc[c] = "done") =>
              /\ path[c] = "winner"
              /\ fetch_calls = 1
              /\ fetched[c] = "err" => result[c] = Err
              /\ fetched[c] # "err" =>
                    result[c] = Ok(1) /\ access_token.access_token = 1
        /\ (/\ calls = 2 /\ Solo(c) /\ pc[c] = "done"
            /\ group_base = 1 /\ group_token.access_token = 1
            /\ now + Margin < group_token.expired_at) =>
              /\ path[c] = "fast"
              /\ result[c] = Ok(1)
              /\ fetch_calls = 1

\* C17 witness: the second call on the client has returned the first call's
\* token from the first check.
C17_Witness ==
    \E c \in Callers :
        /\ calls = 2 /\ Solo(c) /\ pc[c] = "done"
        /\ path[c] = "fast" /\ result[c] = Ok(1)
        /\ fetch_calls = 1

\* the cached token is inside its freshness window now + margin < expired_at
InWindow == now + Margin < access_token.expired_at

\* C18: a fetch that completes at time t with TTL d yields the expiry t + d,
\* which is what the winner stores; from then on, while now < t + d - margin,
\* no fetch is in flight and every non-forced call whose first check happens
\* returns the cached token from it, whatever the other callers are doing.
C18_FreshnessWindow ==
    [][ /\ InWindow' => \A c \in Callers : pc'[c] \notin {"fetching", "store_token"}
        /\ \A c \in Callers :
            /\ (pc[c] = "fetching" /\ fetched'[c] = "ok")
                  => builder'[c] = AccessToken(fetch_calls, now + LongTTL)
            /\ (pc[c] = "fetching" /\ fetched'[c] = "ok_short")
                  => builder'[c] = AccessToken(fetch_calls, now + ShortTTL)
            /\ (pc[c] = "store_expiry" /\ pc'[c] # pc[c])
                  => access_token' = builder[c]
            /\ (/\ pc[c] = "fast_path" /\ pc'[c] # pc[c]
                /\ force[c] = "None" /\ InWindow)
                  => /\ pc'[c] = "done"
                     /\ result'[c] = Ok(access_token.access_token)
                     /\ fetch_calls' = fetch_calls
      ]_vars

\* C18 witness: a token fetched after the clock had advanced is inside its
\* window and a non-forced call has returned it from the first check while
\* another call is in progress.
C18_Witness ==
    \E c, d \in Callers :
        /\ pc[c] = "done" /\ path[c] = "fast" /\ force[c] = "None"
        /\ InWindow /\ now >= 1
        /\ access_token.expired_at = now + LongTTL
        /\ result[c] = Ok(access_token.access_token)
        /\ c # d /\ Active(d)

\* C19 as stated: the checks treat the token as stale exactly when
\* now + margin >= expired_at.
C19_StaleAtMargin ==
    [][ \A c \in Callers :
          /\ (pc[c] = "fast_path" /\ pc'[c] # pc[c])
                => (pc'[c] = "cas" <=> now + Margin >= access_token.expired_at)
          /\ (pc[c] = "double_check" /\ pc'[c] # pc[c])
                => (pc'[c] = "fetching" <=> now + Margin >= access_token.expired_at)
      ]_vars

\* C19 amended: the first check and the double check treat the token as stale
\* exactly when now + margin > expired_at, that is when less than 5 minutes
\* remain; with exactly 5 minutes left the token is returned as fresh.
C19_StaleInsideMargin ==
    [][ \A c \in Callers :
          /\ (pc[c] = "fast_path" /\ pc'[c] # pc[c])
                => (pc'[c] = "cas" <=> now + Margin > access_token.expired_at)
          /\ (pc[c] = "double_check" /\ pc'[c] # pc[c])
                => (pc'[c] = "fetching" <=> now + Margin > access_token.expired_at)
      ]_vars

\* C19 witness: a call made alone found a cached token with 4 minutes left,
\* took it for stale and has returned the token of a new fetch.
C19_Witness ==
    \E c \in Callers :
        /\ Solo(c) /\ pc[c] = "done" /\ path[c] = "winner"
        /\ group_token.access_token # EmptyToken
        /\ group_token.expired_at = now + Margin - 1
        /\ fetched[c] = "ok" /\ result[c] = Ok(fetch_calls)

\* C20 as stated: a call loses the arbitration only to a refresh of its own
\* flavor, and while the only fetch there has been is one of the other
\* flavor no call returns that fetch's token.
C20_FlavorsIndependent ==
    [][ \A c \in Callers :
          /\ (pc[c] = "cas" /\ pc'[c] = "notified")
                => \E d \in Callers : Owner(d) /\ Flavor(d) = Flavor(c)
          /\ \A d \in Callers :
                (/\ Flavor(d) # Flavor(c)
                 /\ fetch_calls' = 1 /\ fetched'[d] = "ok"
                 /\ pc'[c] = "done")
                => result'[c] # Ok(1)
      ]_vars

\* C21: a loser that abandons its call while suspended changes nothing but
\* its own call: token, lock, `refreshing`, the fetch count and every other
\* caller are as before and only its own Notified future is gone; the flag
\* is never true without a winner behind it, and a winner always has a step
\* to take up to its return.
C21_AbandonedWaitIsLocal ==
    /\ [](refreshing => \E w \in Callers : Owner(w))
    /\ [](\A w \in Callers :
            (Owner(w) \/ pc[w] = "notify_waiters") => ENABLED Step(w))
    /\ [][ \A c \in Callers :
             (pc[c] = "waiting" /\ pc'[c] = "done") =>
                /\ UNCHANGED <<access_token, writer, refreshing, fetch_calls>>
                /\ notify' = notify \ {c}
                /\ \A d \in Callers \ {c} :
                      /\ pc'[d] = pc[d]
                      /\ result'[d] = result[d]
                      /\ builder'[d] = builder[d]
         ]_vars

\* C21 witness: the loser abandoned its wait, and the winner has fetched,
\* stored the token, cleared the flag and returned.
C21_Witness ==
    \E w, c \in Callers :
        /\ pc[c] = "done" /\ path[c] = "loser" /\ result[c] = NoResult
        /\ pc[w] = "done" /\ path[w] = "winner" /\ fetched[w] = "ok"
        /\ result[w] = Ok(access_token.access_token)
        /\ ~refreshing /\ notify = {}

C23_ArgsBuild ==
    ret # NoRet =>
        /\ ret.ok <=>
              /\ arg.content # Nothing /\ arg.scene # Nothing
              /\ arg.openid # Nothing
              /\ \A n \in arg.content : n <= ContentLimit
              /\ arg.signature # Nothing => arg.scene = Some("Profile")
        /\ ~ret.ok => ret = InvalidParameter
        /\ ret.ok =>
              /\ arg.content = Some(ret.val.content)
              /\ arg.scene = Some(ret.val.scene)
              /\ arg.openid = Some(ret.val.openid)
              /\ arg.version = Nothing => ret.val.version = 2
              /\ arg.version # Nothing => arg.version = Some(ret.val.version)
              /\ ret.val.title = arg.title
              /\ ret.val.nickname = arg.nickname
              /\ ret.val.signature = arg.signature
              /\ "validate" \in DOMAIN ret => ret.validate = OkUnit

\* C23 witness: a Profile content of exactly 2500 bytes with a signature
\* and no version was built, got version 2 and has been validated.
C23_Witness ==
    /\ ret.ok
    /\ "validate" \in DOMAIN ret
    /\ ret.val.content = ContentLimit
    /\ ret.val.signature # Nothing
    /\ arg.version = Nothing /\ ret.val.version = 2

\* C24: Suggest::from maps every casing of "risky", "pass", "review" to
\* Risky, Pass, Review and every other string to Review; of is_pass,
\* is_risky, needs_review exactly one is true, the one of the value, and
\* priority is 1 for Risky, 2 for Review, 3 for Pass.
C24_SuggestFrom ==
    ret # NoRet =>
        /\ arg \in Casings(<<"r", "i", "s", "k", "y">>) => ret.val = "Risky"
        /\ arg \in Casings(<<"p", "a", "s", "s">>) => ret.val = "Pass"
        /\ arg \in Casings(<<"r", "e", "v", "i", "e", "w">>) => ret.val = "Review"
        /\ arg \in OtherStrs => ret.val = "Review"
        /\ "priority" \in DOMAIN ret =>
              /\ Cardinality({m \in {"is_pass", "is_risky", "needs_review"} :
                                ret[m]}) = 1
              /\ ret.is_pass <=> ret.val = "Pass"
              /\ ret.is_risky <=> ret.val = "Risky"
              /\ ret.needs_review <=> ret.val = "Review"
              /\ ret.val = "Risky" => ret.priority = 1
              /\ ret.val = "Review" => ret.priority = 2
              /\ ret.val = "Pass" => ret.priority = 3

\* C24 witness: "PASS" in capitals was converted to Pass, which is_pass and
\* has priority 3.
C24_Witness ==
    /\ arg = <<"P", "A", "S", "S">>
    /\ "priority" \in DOMAIN ret
    /\ ret.val = "Pass" /\ ret.is_pass /\ ret.priority = 3

\* C25: on a MsgSecCheckResult at most one of is_pass, is_risky,
\* needs_review is true, each is true exactly when the comprehensive result
\* is present with that suggest (so all are false when it is absent),
\* is_success is true exactly when errcode is 0, and get_valid_details is
\* the detail entries with errcode 0 in their order (empty without detail).
C25_ResultMethods ==
    /\ "is_success" \in DOMAIN ret =>
          /\ Cardinality({m \in {"is_pass", "is_risky", "needs_review"} :
                            ret[m]}) <= 1
          /\ ret.is_pass <=> \E x \in arg.result : x.suggest = "Pass"
          /\ ret.is_risky <=> \E x \in arg.result : x.suggest = "Risky"
          /\ ret.needs_review <=> \E x \in arg.result : x.suggest = "Review"
          /\ arg.result = Nothing =>
                ~ret.is_pass /\ ~ret.is_risky /\ ~ret.needs_review
          /\ ret.is_success <=> arg.errcode = 0
    /\ (ret # NoRet /\ "is_success" \notin DOMAIN ret) =>
          /\ arg.detail = Nothing => ret.val = <<>>
          /\ \A v \in arg.detail :
                LET idx == {i \in DOMAIN v : v[i].errcode = 0}
                IN  /\ Len(ret.val) = Cardinality(idx)
                    /\ \E f \in [DOMAIN ret.val -> idx] :
                          /\ \A i, j \in DOMAIN ret.val : i < j => f[i] < f[j]
                          /\ \A i \in DOMAIN ret.val : ret.val[i] = v[f[i]]

\* C25 witness: of two detail entries the first failed and the second,
\* valid, is the one returned.
C25_Witness ==
    /\ ret # NoRet /\ "is_success" \notin DOMAIN ret
    /\ \E v \in arg.detail :
          /\ Len(v) = 2
          /\ v[1].errcode # 0 /\ v[2].errcode = 0
          /\ ret.val = <<v[2]>>

\* less than the margin is left of the cached token (is_token_expired)
Stale == now + Margin > access_token.expired_at

\* C26: a winner whose double check finds the token fresh goes on to
\* store(false) with Ok of the cached token as its result, and that step
\* invokes no fetch and changes neither token nor flag nor wakeup; on its way
\* out it clears `refreshing` and broadcasts, its result unchanged.
C26_DoubleCheckFresh ==
    [][ \A c \in Callers :
          /\ (pc[c] = "double_check" /\ pc'[c] # pc[c] /\ ~Stale) =>
                /\ pc'[c] = "release"
                /\ result'[c] = Ok(access_token.access_token)
                /\ fetched'[c] = "no"
                /\ writer' = None
                /\ UNCHANGED <<access_token, fetch_calls, refreshing, notify>>
          /\ (path[c] = "winner" /\ fetched[c] = "no") =>
                /\ (pc[c] = "release" /\ pc'[c] # pc[c]) =>
                      /\ pc'[c] = "notify_waiters" /\ ~refreshing'
                      /\ result'[c] = result[c]
                      /\ UNCHANGED <<access_token, fetch_calls>>
                /\ (pc[c] = "notify_waiters" /\ pc'[c] # pc[c]) =>
                      /\ pc'[c] = "done" /\ notify' = {}
                      /\ result'[c] = result[c]
                      /\ UNCHANGED <<access_token, fetch_calls>>
      ]_vars

\* C26 witness: a winner has returned the cached token without a fetch of
\* its own, the single fetch of the busy period being another winner's.
C26_Witness ==
    \E c, d \in Callers :
        /\ pc[c] = "done" /\ path[c] = "winner" /\ fetched[c] = "no"
        /\ result[c] = Ok(access_token.access_token)
        /\ fetched[d] = "ok" /\ GroupFetches = 1
        /\ ~refreshing

\* C27 as stated: with no forced call, a caller that won the
\* compare-exchange finds the token stale at the double check.
C27_DoubleCheckNoOp ==
    \A c \in Callers : pc[c] = "double_check" => Stale

\* C27 amended: with no forced call, a winner finds the token fresh at the
\* double check only if the token it finds was fetched during the current
\* busy period, by another winner.
C27_FreshOnlyAfterOtherRefresh ==
    \A c \in Callers :
        (pc[c] = "double_check" /\ ~Stale) =>
            /\ access_token.access_token \in (group_base + 1)..fetch_calls
            /\ fetched[c] = "no"
            /\ Cardinality(Owners) = 1

\* C27 witness: a second winner stands at the double check with the fresh
\* token the first winner has just fetched, no call being forced.
C27_Witness ==
    \E c, d \in Callers :
        /\ pc[c] = "double_check" /\ ~Stale
        /\ path[d] = "winner" /\ fetched[d] = "ok"
        /\ access_token.access_token = fetch_calls
        /\ \A e \in Callers : force[e] = "None"

\* C28 as stated: `refreshing` is never left true with no caller on the
\* refresher path, also when calls are dropped at their await points.
C28_FlagResetOnCancel ==
    refreshing => \E c \in Callers : Owner(c)

\* the state of the three-state machine a state of the Client stands for
Abs ==
    IF refreshing THEN "RefreshInFlight"
    ELSE IF Stale THEN "StaleIdle" ELSE "Fresh"

\* C29 as stated: from StaleIdle, the Client moves between the three states
\* only by StaleIdle -> RefreshInFlight, RefreshInFlight -> Fresh after a
\* successful fetch, RefreshInFlight -> StaleIdle when the refresh ends with
\* the token stale (a failed fetch; also granted: a fetched token already
\* inside the margin) and Fresh -> StaleIdle by time, and `refreshing` has a
\* refresher behind it.
C29_ThreeStateRefinement ==
    /\ Abs = "StaleIdle"
    /\ [](refreshing => \E c \in Callers : Owner(c))
    /\ [][ Abs' # Abs =>
             \/ Abs = "StaleIdle" /\ Abs' = "RefreshInFlight"
             \/ /\ Abs = "RefreshInFlight" /\ Abs' = "Fresh"
                /\ \E c \in Callers : pc[c] = "release" /\ fetched[c] = "ok"
             \/ /\ Abs = "RefreshInFlight" /\ Abs' = "StaleIdle"
                /\ \E c \in Callers : pc[c] = "release" /\ fetched[c] # "no"
             \/ Abs = "Fresh" /\ Abs' = "StaleIdle" /\ now' # now
         ]_vars

\* C29 amended: `refreshing` is true exactly while one caller is between its
\* winning compare-exchange and its store(false); it becomes true by a
\* compare-exchange won from StaleIdle or from Fresh, and false by the
\* owner's store(false), whatever its refresh did; Fresh is otherwise left
\* only to StaleIdle by time, the token unchanged.
C29_RefinementWithLateWinner ==
    /\ Abs = "StaleIdle"
    /\ [](refreshing <=> Cardinality(Owners) = 1)
    /\ [][ Abs' # Abs =>
             \/ /\ Abs \in {"StaleIdle", "Fresh"} /\ Abs' = "RefreshInFlight"
                /\ \E c \in Callers : pc[c] = "cas" /\ pc'[c] = "write_lock"
                /\ access_token' = access_token
             \/ /\ Abs = "RefreshInFlight" /\ Abs' \in {"StaleIdle", "Fresh"}
                /\ \E c \in Callers :
                      /\ pc[c] = "release" /\ pc'[c] = "notify_waiters"
                      /\ fetched[c] \in {"no", "ok", "ok_short", "err"}
                /\ access_token' = access_token
             \/ /\ Abs = "Fresh" /\ Abs' = "StaleIdle"
                /\ now' = now + 1 /\ access_token' = access_token
         ]_vars

\* C29 witness: the token is fresh and `refreshing` is true: a caller whose
\* first check saw the old token has won the compare-exchange after the
\* refresh.
C29_Witness ==
    \E c \in Callers :
        /\ refreshing /\ ~Stale
        /\ pc[c] = "write_lock"
        /\ access_token.access_token = fetch_calls /\ fetch_calls >= 1

\* C30: the token state changes only in a step of the caller that owns the
\* refresh, while `refreshing` is true and it holds the write guard, and the
\* new value or expiry is the one of the builder its fetch returned.
C30_OnlyOwnerWrites ==
    [][ access_token' # access_token =>
          \E c \in Callers :
              /\ Owner(c) /\ path[c] = "winner"
              /\ refreshing /\ writer = c
              /\ fetched[c] \in {"ok", "ok_short"}
              /\ pc[c] \in {"store_token", "store_expiry"} /\ pc'[c] # pc[c]
              /\ \/ access_token' = [access_token EXCEPT
                                       !.access_token = builder[c].access_token]
                 \/ access_token' = [access_token EXCEPT
                                       !.expired_at = builder[c].expired_at]
              /\ \A d \in Callers \ {c} : pc'[d] = pc[d]
      ]_vars

\* C30 witness: while the winner holds the write guard over the token it
\* has half written, a caller on the first check and a loser are present.
C30_Witness ==
    \E c, d \in Callers :
        /\ pc[c] = "store_expiry" /\ writer = c /\ refreshing
        /\ access_token.access_token = builder[c].access_token
        /\ path[d] = "loser"

\* C31: every clone of a Client points to the same token state, the same
\* `refreshing` flag and the same wakeup signal as the Client it was cloned
\* from, so the calls made through different clones arbitrate as one group:
\* at most one fetch is in flight across all clones, and a call that
\* returned from the fast path returned a token stored by a fetch, whichever
\* clone that fetch was made through.
C31_ClonesShareState ==
    /\ \A i, j \in DOMAIN arg :
          /\ arg[i].access_token = arg[j].access_token
          /\ arg[i].refreshing = arg[j].refreshing
          /\ arg[i].notify = arg[j].notify
    /\ Cardinality(Fetching) <= 1
    /\ \A d \in Callers :
          (pc[d] = "done" /\ path[d] = "fast")
          => /\ result[d].ok
             /\ result[d].val \in 1..fetch_calls

\* C31 witness: the task holding the clone has returned from the fast path
\* the token that the fetch made through the original Client stored.
C31_Witness ==
    /\ Len(arg) = 2
    /\ pc[1] = "done" /\ path[1] = "winner" /\ fetched[1] \in {"ok", "ok_short"}
    /\ pc[2] = "done" /\ path[2] = "fast"
    /\ result[2] = result[1]
    /\ result[2] = Ok(access_token.access_token)
    /\ fetch_calls = 1

\* C32: every wrapper that needs a token awaits the method token() selects:
\* stable_access_token(None) on a Client built with new(), access_token()
\* on a Client built with with_non_stable().
C32_WrappersUseToken ==
    ("method" \in DOMAIN ret /\ ret.method # "none")
    => ret.method = (IF arg = Client_new THEN "stable_access_token(None)"
                     ELSE "access_token()")

\* C33: a msg_sec_check whose arguments fail validate() (content longer
\* than 2500, or a signature with a scene other than Profile) returns
\* InvalidParameter in that step (the step that sets `ret`), awaits no
\* token method, invokes no fetch and leaves the token, `refreshing`, the
\* lock and the wakeup signal as they were.
C33_ValidateBeforeToken ==
    [][ ( /\ ret' # ret
          /\ "args" \in DOMAIN ret'
          /\ Args_validate(ret'.args) # OkUnit )
        => /\ ret'.val = "InvalidParameter"
           /\ ret'.method = "none"
           /\ UNCHANGED client
      ]_vars

\* C33 witness: a msg_sec_check with invalid arguments has returned
\* InvalidParameter while another task's refresh is in flight on a stale
\* token, and the call counter shows only that task's call.
C33_Witness ==
    /\ "args" \in DOMAIN ret
    /\ ret.val = "InvalidParameter"
    /\ ret.args.content > ContentLimit
    /\ \E c \in Callers : pc[c] = "fetching"
    /\ refreshing
    /\ calls = 1
    /\ \E d \in Callers : pc[d] = "idle"

\* C34: build and validate accept a content exactly when it has at most
\* 2500 characters, whatever the number of bytes its encoding takes, and
\* content_length() is that number of characters.
C34_LimitInCharacters ==
    /\ ("op" \in DOMAIN ret /\ ret.op \in {"build", "validate"})
       => (ret.val.ok <=> chars_count(arg) <= ContentLimit)
    /\ ("op" \in DOMAIN ret /\ ret.op = "content_length")
       => ret.val = chars_count(arg)

\* C35: two values of AccessToken, AccessTokenBuilder, Credential or
\* CredentialBuilder that differ only in the secret they hold (access_token
\* or session_key) have the same Debug output, and the line the refresher
\* logs after storing a fetched token is the same whatever the token.
C35_DebugHidesSecret ==
    "log" \in DOMAIN ret => ret.a = ret.b

\* C35 witness: the refresher has logged the guard for two fetched tokens
\* that differ.
C35_Witness ==
    /\ "log" \in DOMAIN ret
    /\ ret.log = "fresh access token"
    /\ arg.a.access_token # arg.b.access_token
    /\ arg.a.expired_at = arg.b.expired_at

TypeOK ==
    /\ access_token \in [access_token : 0..MaxCalls, expired_at : 0..(MaxTime + LongTTL)]
    /\ writer \in Callers \cup {None}
    /\ refreshing \in BOOLEAN
    /\ notify \subseteq Callers
    /\ now \in 0..MaxTime
    /\ fetch_calls \in 0..MaxCalls
    /\ calls \in 0..MaxCalls
====
